---- MODULE Spec2Model ----
(***************************************************************************)
(* Model of the files_manager service: the session store (Redis), the      *)
(* users and files collections (MongoDB), the byte storage (local disk),   *)
(* the job queues, and the request handlers of UsersController,            *)
(* AuthController and FilesController.                                     *)
(*                                                                         *)
(* Values that JavaScript distinguishes by type are tagged records         *)
(* [t, c, v]: t is the JavaScript/BSON type ("str", "oid", "num", "null"), *)
(* c the collection the identifier was generated for and v its number.     *)
(* A MongoDB filter matches a field only when type and value agree, so a   *)
(* hex string never matches the ObjectId it spells.                        *)
(*                                                                         *)
(* Every handler H is modelled twice over the same code: HRes(inputs) is   *)
(* the reply and the stores the handler leaves, computed from the current  *)
(* state; the action H(inputs) installs them.  Properties quantify over    *)
(* HRes for all inputs in every reachable state.  Spec runs whole handlers *)
(* one after the other; SpecConc runs postNew and postUpload one await at  *)
(* a time with several requests in flight.                                 *)
(*                                                                         *)
(* dbClient.dbClient is taken to be the handle of the database the         *)
(* controllers call collection() on.  getConnect is modelled from the      *)
(* decoded Authorization payload on; without the header it throws before   *)
(* any store is read.                                                      *)
(***************************************************************************)
EXTENDS Integers, Sequences, FiniteSets, TLC

(* ---- bounds of the model ---- *)
MaxUsers == 2
MaxFiles == 2
MaxTokens == 2
MaxTicks == 2
MaxPage == 1
\* users + files + issued tokens + clock ticks of one run
MaxSize == 5
\* requests in flight at once
MaxReqs == 2
MaxUuid == 2

(* ---- values ---- *)
Null == [t |-> "null", c |-> "none", v |-> 0]
Str(c, n) == [t |-> "str", c |-> c, v |-> n]
Oid(c, n) == [t |-> "oid", c |-> c, v |-> n]
RootStr == [t |-> "str", c |-> "root", v |-> 0]
RootNum == [t |-> "num", c |-> "root", v |-> 0]

\* ObjectId(x): an ObjectId passes through, a 24-hex string is parsed
ObjectId(x) == [x EXCEPT !.t = "oid"]
\* objectId.toString() / string.toString()
toString(x) == [x EXCEPT !.t = "str"]
\* ObjectId(x) throws for a string that is not 12 bytes / 24 hex digits
ObjectIdThrows(x) == x.c \notin {"users", "files"}

Truthy(x) == x.t # "null"

(* ---- request inputs ---- *)
NoToken == 0
Tokens == 0..MaxTokens
Emails == {<<>>, <<"a">>, <<"b">>}
RegPasswords == {<<>>, <<"p">>}
LoginPasswords == {<<>>, <<"p">>, <<"q">>, <<"p", ":", "q">>}
\* decoded Authorization payloads: "email:password", and "email" alone
Creds == {e \o <<":">> \o p : e \in Emails, p \in LoginPasswords} \cup {<<"a">>}
Names == {"", "a.txt"}
Types == {"folder", "file", "image", "video"}
PublicFlags == {"undefined", "true"}
\* base64 text as sequences of 6-bit digits, padding removed: "" and "aGk="
Datas == {<<>>, <<26, 6, 36>>}
FileIdStrs == {Str("files", n) : n \in 1..MaxFiles}
ParentInputs == {Null, RootStr} \cup FileIdStrs
UploadParents == {Null} \cup FileIdStrs
\* every request body of postUpload over the field values above
AllBodies == [name : Names, type : Types, isPublic : PublicFlags, data : Datas,
              parentId : ParentInputs]
PlainBody == [name |-> "a.txt", type |-> "file", isPublic |-> "undefined",
              data |-> <<26, 6, 36>>, parentId |-> Null]
\* the bodies sent in a run: the complete ones, and one per missing field
UploadBodies ==
    {b \in AllBodies : b.name # "" /\ b.type # "video" /\ b.data # <<>>
                       /\ b.parentId \in UploadParents}
    \cup {[PlainBody EXCEPT !.name = ""], [PlainBody EXCEPT !.type = "video"],
          [PlainBody EXCEPT !.data = <<>>],
          [PlainBody EXCEPT !.type = "folder", !.data = <<>>]}
IdInputs == FileIdStrs
NoPage == -1
Pages == {NoPage} \cup (0..MaxPage)
Sizes == {"", "100"}

VARIABLES users, files, redis, now, disk, storageDir, fileQueue, userQueue,
          nextToken, nextUuid, resp, reqs

vars == <<users, files, redis, now, disk, storageDir, fileQueue, userQueue,
          nextToken, nextUuid, resp, reqs>>

(* ---- sha1, base64, split, mime ---- *)
sha1(p) == <<"sha1">> \o p

RECURSIVE Split(_, _)
\* s.split(sep): the segments of s between the separators
Split(s, sep) ==
    IF \E i \in 1..Len(s) : s[i] = sep
    THEN LET i == CHOOSE k \in 1..Len(s) :
                     s[k] = sep /\ \A j \in 1..(k - 1) : s[j] # sep
         IN <<SubSeq(s, 1, i - 1)>> \o Split(SubSeq(s, i + 1, Len(s)), sep)
    ELSE <<s>>

\* const [email, password] = parts: missing elements are undefined (falsy)
Elem(parts, i) == IF i <= Len(parts) THEN parts[i] ELSE <<>>

RECURSIVE FromBase64NoTail(_)
\* the decoding that drops a final group of fewer than four digits
FromBase64NoTail(s) ==
    IF Len(s) >= 4
    THEN << s[1] * 4 + (s[2] \div 16),
            (s[2] % 16) * 16 + (s[3] \div 4),
            (s[3] % 4) * 64 + s[4] >> \o FromBase64NoTail(SubSeq(s, 5, Len(s)))
    ELSE <<>>

RECURSIVE FromBase64(_)
\* Buffer.from(data, 'base64')
FromBase64(s) ==
    IF Len(s) >= 4
    THEN << s[1] * 4 + (s[2] \div 16),
            (s[2] % 16) * 16 + (s[3] \div 4),
            (s[3] % 4) * 64 + s[4] >> \o FromBase64(SubSeq(s, 5, Len(s)))
    ELSE IF Len(s) = 3
    THEN << s[1] * 4 + (s[2] \div 16), (s[2] % 16) * 16 + (s[3] \div 4) >>
    ELSE IF Len(s) = 2
    THEN << s[1] * 4 + (s[2] \div 16) >>
    ELSE <<>>

\* mime.lookup(file.name)
MimeLookup(name) == IF name = "a.txt" THEN "text/plain" ELSE "false"

(* ---- session store (RedisClient) ---- *)
TTL == 60 * 60 * 24
TickStep == TTL \div 2

\* RedisClient.get: the value of a key that is set and not expired, else null
RedisGet(key) ==
    IF \E e \in redis : e.key = key /\ now < e.exp
    THEN (CHOOSE e \in redis : e.key = key /\ now < e.exp).value
    ELSE Null

\* RedisClient.set(key, value, duration): SET key value EX duration
RedisSet(key, value, duration) ==
    {e \in redis : e.key # key} \cup
    {[key |-> key, value |-> value, exp |-> now + duration]}

\* RedisClient.del(key)
RedisDel(key) == {e \in redis : e.key # key}

(* ---- document store (collections as sequences in insertion order) ---- *)
Find(coll, Match(_)) == SelectSeq(coll, Match)

\* insertOne on users: the new _id
NewUserId == Oid("users", Len(users) + 1)
\* insertOne on files: the new _id
NewFileId == Oid("files", Len(files) + 1)

\* $skip / $limit of the aggregation pipeline
SkipLimit(s, skip, limit) ==
    SubSeq(s, skip + 1, IF Len(s) < skip + limit THEN Len(s) ELSE skip + limit)

\* path.join(folderName, fileId) and `${localPath}_${size}`
LocalPath(uuid, size) == [uuid |-> uuid, size |-> size]

(* ---- responses ---- *)
\* the stores as a handler finds them
Same ==
    [users |-> users, files |-> files, redis |-> redis, disk |-> disk,
     storageDir |-> storageDir, fileQueue |-> fileQueue, userQueue |-> userQueue,
     nextToken |-> nextToken, nextUuid |-> nextUuid]

\* the outcome of a handler: res.status(..).json(..) and the stores it leaves
Reply(status, error, body, post) ==
    [status |-> status, error |-> error, body |-> body, post |-> post]

Unauthorized == Reply(401, "Unauthorized", <<>>, Same)
NotFound == Reply(404, "Not found", <<>>, Same)
\* a handler that throws: no store is written after the throw
Exception == Reply(500, "exception", <<>>, Same)

Size == Len(users) + Len(files) + (nextToken - 1) + (now \div TickStep)

Apply(op, r) ==
    /\ users' = r.post.users
    /\ files' = r.post.files
    /\ redis' = r.post.redis
    /\ disk' = r.post.disk
    /\ storageDir' = r.post.storageDir
    /\ fileQueue' = r.post.fileQueue
    /\ userQueue' = r.post.userQueue
    /\ nextToken' = r.post.nextToken
    /\ nextUuid' = r.post.nextUuid
    /\ now' = now
    /\ reqs' = reqs
    /\ resp' = [op |-> op, status |-> r.status, error |-> r.error]

\* a request between two awaits: the handler, the await it is suspended at and
\* the locals it holds
Slots == 1..MaxReqs
Idle == [op |-> "idle", pc |-> "", email |-> <<>>, password |-> <<>>,
         userId |-> Null, body |-> PlainBody, localPath |-> LocalPath(0, ""),
         fileId |-> Null]

Init ==
    /\ users = <<>>
    /\ files = <<>>
    /\ redis = {}
    /\ now = 0
    /\ disk = {}
    /\ storageDir = FALSE
    /\ fileQueue = <<>>
    /\ userQueue = <<>>
    /\ nextToken = 1
    /\ nextUuid = 1
    /\ resp = [op |-> "none", status |-> 0, error |-> ""]
    /\ reqs = [s \in Slots |-> Idle]

(* ---- UsersController ---- *)
PostNewRes(email, password) ==
    IF email = <<>> THEN Reply(400, "Missing email", <<>>, Same)
    ELSE IF password = <<>> THEN Reply(400, "Missing password", <<>>, Same)
    ELSE IF Find(users, LAMBDA u : u.email = email) # <<>>
    THEN Reply(400, "Already exist", <<>>, Same)
    ELSE Reply(201, "", [id |-> NewUserId, email |-> email],
               [Same EXCEPT
                  !.users = Append(users, [_id |-> NewUserId, email |-> email,
                                           password |-> sha1(password)]),
                  !.userQueue = Append(userQueue, [userId |-> NewUserId])])

PostNew(email, password) ==
    LET r == PostNewRes(email, password) IN
    /\ r.status = 201 => (Len(users) < MaxUsers /\ Size < MaxSize)
    /\ Apply("postNew", r)

\* getMe that sets the session again, with a new expiry, on every use
GetMeResRenews(token) ==
    IF token = NoToken THEN Unauthorized
    ELSE LET userId == RedisGet(token) IN
         IF ~Truthy(userId) THEN Unauthorized
         ELSE LET user == Find(users, LAMBDA u : u._id = ObjectId(userId)) IN
              IF user # <<>>
              THEN Reply(200, "", [id |-> userId, email |-> user[1].email],
                         [Same EXCEPT !.redis = RedisSet(token, userId, TTL)])
              ELSE Unauthorized

GetMeRes(token) ==
    IF token = NoToken THEN Unauthorized
    ELSE LET userId == RedisGet(token) IN
         IF ~Truthy(userId) THEN Unauthorized
         ELSE LET user == Find(users, LAMBDA u : u._id = ObjectId(userId)) IN
              IF user # <<>>
              THEN Reply(200, "", [id |-> userId, email |-> user[1].email], Same)
              ELSE Unauthorized

GetMe(token) == Apply("getMe", GetMeRes(token))

(* ---- AuthController ---- *)
GetConnectRes(cred) ==
    LET parts == Split(cred, ":")
        email == Elem(parts, 1)
        password == Elem(parts, 2)
    IN
    IF email = <<>> \/ password = <<>> THEN Unauthorized
    ELSE LET user == Find(users, LAMBDA u : u.email = email
                                            /\ u.password = sha1(password)) IN
         IF user = <<>> \/ user[1].password # sha1(password) THEN Unauthorized
         ELSE Reply(200, "", [token |-> nextToken],
                    [Same EXCEPT
                       !.redis = RedisSet(nextToken, toString(user[1]._id), TTL),
                       !.nextToken = nextToken + 1])

GetConnect(cred) ==
    LET r == GetConnectRes(cred) IN
    /\ r.status = 200 => (nextToken <= MaxTokens /\ Size < MaxSize)
    /\ Apply("getConnect", r)

\* getDisconnect that answers 204 and leaves the key in Redis
GetDisconnectResKeepsKey(token) ==
    LET userId == RedisGet(token) IN
    IF ~Truthy(userId) THEN Unauthorized
    ELSE Reply(204, "", <<>>, Same)

GetDisconnectRes(token) ==
    LET userId == RedisGet(token) IN
    IF ~Truthy(userId) THEN Unauthorized
    ELSE Reply(204, "", <<>>, [Same EXCEPT !.redis = RedisDel(token)])

GetDisconnect(token) == Apply("getDisconnect", GetDisconnectRes(token))

(* ---- FilesController ---- *)

\* the checks on the body with the data test made before the type test
ValidationErrorDataFirst(name, type, data) ==
    IF name = "" THEN "Missing name"
    ELSE IF data = <<>> /\ type # "folder" THEN "Missing data"
    ELSE IF type \notin {"folder", "file", "image"} THEN "Missing type"
    ELSE ""

\* the checks on name, type and data: the error reported, "" when they pass
ValidationError(name, type, data) ==
    IF name = "" THEN "Missing name"
    ELSE IF type \notin {"folder", "file", "image"} THEN "Missing type"
    ELSE IF data = <<>> /\ type # "folder" THEN "Missing data"
    ELSE ""

\* let parentId = req.body.parentId || '0'
BodyParent(bodyParentId) == IF Truthy(bodyParentId) THEN bodyParentId ELSE RootStr

\* the lookup of the parent without the test of its type
ParentErrorNoKindCheck(parentId0) ==
    IF parentId0 = RootStr THEN ""
    ELSE IF Find(files, LAMBDA f : f._id = ObjectId(parentId0)) = <<>>
    THEN "Parent not found"
    ELSE ""

\* the lookup of the parent: the error reported, "" when it passes
ParentError(parentId0) ==
    IF parentId0 = RootStr THEN ""
    ELSE LET parentFile == Find(files, LAMBDA f : f._id = ObjectId(parentId0)) IN
         IF parentFile = <<>> THEN "Parent not found"
         ELSE IF parentFile[1].type # "folder" THEN "Parent is not a folder"
         ELSE ""

\* parentId = parentId !== '0' ? ObjectId(parentId) : '0'
StoredParent(parentId0) == IF parentId0 # RootStr THEN ObjectId(parentId0) ELSE RootStr

\* isPublic || false
StoredPublic(isPublic) == (isPublic = "true")

\* the document inserted for a folder: userId is the string read from Redis
FolderDoc(userId, name, type, isPublic, parentId0) ==
    [_id |-> NewFileId, userId |-> userId, name |-> name, type |-> type,
     isPublic |-> StoredPublic(isPublic), parentId |-> StoredParent(parentId0)]

\* the document inserted for a file or an image: { localPath, ...folderData }
FileDoc(localPath, userId, name, type, isPublic, parentId0) ==
    [_id |-> NewFileId, localPath |-> localPath, userId |-> ObjectId(userId),
     name |-> name, type |-> type, isPublic |-> StoredPublic(isPublic),
     parentId |-> StoredParent(parentId0)]

\* folderData returned with the root as parent whatever the request named
ReturnedParentAlwaysRoot(parentId0) == RootNum

\* folderData as returned: parentId === '0' ? 0 : ObjectId(parentId)
ReturnedParent(parentId0) ==
    IF StoredParent(parentId0) = RootStr THEN RootNum
    ELSE ObjectId(StoredParent(parentId0))

FolderBody(userId, name, type, isPublic, parentId0) ==
    [id |-> NewFileId, userId |-> ObjectId(userId), name |-> name, type |-> type,
     isPublic |-> StoredPublic(isPublic), parentId |-> ReturnedParent(parentId0)]

FileBody(localPath, userId, name, type, isPublic, parentId0) ==
    [id |-> NewFileId, localPath |-> localPath, userId |-> ObjectId(userId),
     name |-> name, type |-> type, isPublic |-> StoredPublic(isPublic),
     parentId |-> ReturnedParent(parentId0)]

\* fs.promises.writeFile(path, bytes)
WriteFile(path, bytes) ==
    {d \in disk : d.path # path} \cup {[path |-> path, bytes |-> bytes]}

\* the enqueue made for every kind of upload
EnqueueEveryType(type, userId) ==
    Append(fileQueue, [fileId |-> NewFileId, userId |-> userId])

\* fileQueue.add({ fileId, userId }) for images only
Enqueue(type, userId) ==
    IF type = "image"
    THEN Append(fileQueue, [fileId |-> NewFileId, userId |-> userId])
    ELSE fileQueue

PostUploadRes(token, name, type, isPublic, data, bodyParentId) ==
    IF token = NoToken THEN Unauthorized
    ELSE
    LET userId == RedisGet(token)
        parentId0 == BodyParent(bodyParentId)
        localPath == LocalPath(nextUuid, "")
    IN
    IF ~Truthy(userId) THEN Unauthorized
    ELSE IF ValidationError(name, type, data) # ""
    THEN Reply(400, ValidationError(name, type, data), <<>>, Same)
    ELSE IF ParentError(parentId0) # ""
    THEN Reply(400, ParentError(parentId0), <<>>, Same)
    ELSE IF type = "folder"
    THEN Reply(201, "", FolderBody(userId, name, type, isPublic, parentId0),
               [Same EXCEPT
                  !.files = Append(files, FolderDoc(userId, name, type, isPublic,
                                                    parentId0))])
    ELSE Reply(201, "", FileBody(localPath, userId, name, type, isPublic, parentId0),
               [Same EXCEPT
                  !.nextUuid = nextUuid + 1,
                  !.storageDir = TRUE,
                  !.disk = WriteFile(localPath, FromBase64(data)),
                  !.files = Append(files, FileDoc(localPath, userId, name, type,
                                                  isPublic, parentId0)),
                  !.fileQueue = Enqueue(type, userId)])

PostUpload(token, name, type, isPublic, data, bodyParentId) ==
    LET r == PostUploadRes(token, name, type, isPublic, data, bodyParentId) IN
    /\ r.status = 201 => (Len(files) < MaxFiles /\ Size < MaxSize)
    /\ Apply("postUpload", r)

\* getShow without the test of the session lookup's result
GetShowResNoSessionCheck(token, fileId) ==
    IF token = NoToken THEN Unauthorized
    ELSE LET userId == RedisGet(token)
             file == Find(files, LAMBDA f : f._id = ObjectId(fileId)
                                     /\ f.userId = ObjectId(userId)) IN
         IF file = <<>> THEN NotFound
         ELSE Reply(200, "", file[1], Same)

GetShowRes(token, fileId) ==
    IF token = NoToken THEN Unauthorized
    ELSE LET userId == RedisGet(token) IN
         IF ~Truthy(userId) THEN Unauthorized
         ELSE LET file == Find(files, LAMBDA f : f._id = ObjectId(fileId)
                                         /\ f.userId = ObjectId(userId)) IN
              IF file = <<>> THEN NotFound
              ELSE Reply(200, "", file[1], Same)

GetShow(token, fileId) == Apply("getShow", GetShowRes(token, fileId))

\* parseInt(req.query.page, 10) || 0
ParsePage(page) == IF page = NoPage THEN 0 ELSE page

\* files.map((file) => ({ ...file, id: file._id, _id: undefined }))
ModifyResult(fs) ==
    [i \in 1..Len(fs) |->
        [k \in (DOMAIN fs[i] \ {"_id"}) \cup {"id"} |->
            IF k = "id" THEN fs[i]._id ELSE fs[i][k]]]

GetIndexRes(token, queryParentId, page) ==
    IF token = NoToken THEN Unauthorized
    ELSE LET userIdString == RedisGet(token) IN
         IF ~Truthy(userIdString) THEN Unauthorized
         ELSE IF Truthy(queryParentId) /\ ObjectIdThrows(queryParentId)
         THEN Exception
         ELSE LET parentId == IF Truthy(queryParentId)
                              THEN ObjectId(queryParentId) ELSE RootStr
                  userId == ObjectId(userIdString)
                  skip == ParsePage(page) * 20
                  matched == Find(files, LAMBDA f : f.userId = userId
                                               /\ f.parentId = parentId)
              IN Reply(200, "", ModifyResult(SkipLimit(matched, skip, 20)), Same)

GetIndex(token, queryParentId, page) ==
    Apply("getIndex", GetIndexRes(token, queryParentId, page))

\* updateMany: every entry gets the value
UpdateIsPublicAll(coll, id, value) ==
    [i \in 1..Len(coll) |-> [coll[i] EXCEPT !.isPublic = value]]

\* updateOne({ _id }, { $set: { isPublic } }): the first match is updated
UpdateIsPublic(coll, id, value) ==
    [i \in 1..Len(coll) |->
        IF coll[i]._id = id /\ \A j \in 1..(i - 1) : coll[j]._id # id
        THEN [coll[i] EXCEPT !.isPublic = value] ELSE coll[i]]

\* the toggle that looks the entry up by _id alone, whoever owns it
SetPublicResAnyOwner(token, fileId, value) ==
    IF token = NoToken THEN Unauthorized
    ELSE
    LET userId == RedisGet(token) IN
    IF ~Truthy(userId) THEN Unauthorized
    ELSE IF Find(files, LAMBDA f : f._id = ObjectId(fileId)) = <<>>
    THEN NotFound
    ELSE LET updated == UpdateIsPublic(files, ObjectId(fileId), value) IN
         Reply(200, "", Find(updated, LAMBDA f : f._id = ObjectId(fileId))[1],
               [Same EXCEPT !.files = updated])

\* putPublish (value true) and putUnpublish (value false)
SetPublicRes(token, fileId, value) ==
    IF token = NoToken THEN Unauthorized
    ELSE
    LET userId == RedisGet(token) IN
    IF ~Truthy(userId) THEN Unauthorized
    ELSE IF Find(files, LAMBDA f : f._id = ObjectId(fileId)
                                   /\ f.userId = ObjectId(userId)) = <<>>
    THEN NotFound
    ELSE LET updated == UpdateIsPublic(files, ObjectId(fileId), value) IN
         Reply(200, "", Find(updated, LAMBDA f : f._id = ObjectId(fileId))[1],
               [Same EXCEPT !.files = updated])

PutPublishRes(token, fileId) == SetPublicRes(token, fileId, TRUE)

PutUnpublishRes(token, fileId) == SetPublicRes(token, fileId, FALSE)

PutPublish(token, fileId) ==
    Apply("putPublish", PutPublishRes(token, fileId))

PutUnpublish(token, fileId) ==
    Apply("putUnpublish", PutUnpublishRes(token, fileId))

\* the access test without the comparison of the caller with the owner
DeniedIgnoringOwner(file, userId) ==
    \/ file = <<>>
    \/ (~file[1].isPublic /\ ~Truthy(userId))

\* the access test that refuses every private entry, its owner included
DeniedPrivateToAll(file, userId) ==
    \/ file = <<>>
    \/ ~file[1].isPublic

\* the access test of getFile: true when the request is answered 404
Denied(file, userId) ==
    \/ file = <<>>
    \/ /\ ~file[1].isPublic
       /\ (~Truthy(userId) \/ userId # toString(file[1].userId))

\* getFile with the folder test made before the access test
GetFileResFolderFirst(token, fileId, size) ==
    LET userId == RedisGet(token)
        file == Find(files, LAMBDA f : f._id = ObjectId(fileId))
    IN
    IF file # <<>> /\ file[1].type = "folder"
    THEN Reply(400, "A folder doesn't have content", <<>>, Same)
    ELSE IF Denied(file, userId) THEN NotFound
    ELSE LET localPath == IF size # ""
                          THEN LocalPath(file[1].localPath.uuid, size)
                          ELSE file[1].localPath
         IN IF ~\E d \in disk : d.path = localPath THEN NotFound
            ELSE Reply(200, "",
                       [contentType |-> MimeLookup(file[1].name),
                        bytes |-> (CHOOSE d \in disk : d.path = localPath).bytes],
                       Same)

GetFileRes(token, fileId, size) ==
    LET userId == RedisGet(token)
        file == Find(files, LAMBDA f : f._id = ObjectId(fileId))
    IN
    IF Denied(file, userId) THEN NotFound
    ELSE IF file[1].type = "folder"
    THEN Reply(400, "A folder doesn't have content", <<>>, Same)
    ELSE LET localPath == IF size # ""
                          THEN LocalPath(file[1].localPath.uuid, size)
                          ELSE file[1].localPath
         IN IF ~\E d \in disk : d.path = localPath THEN NotFound
            ELSE Reply(200, "",
                       [contentType |-> MimeLookup(file[1].name),
                        bytes |-> (CHOOSE d \in disk : d.path = localPath).bytes],
                       Same)

GetFile(token, fileId, size) ==
    Apply("getFile", GetFileRes(token, fileId, size))

(* ---- time ---- *)
Tick ==
    /\ now < MaxTicks * TickStep
    /\ Size < MaxSize
    /\ now' = now + TickStep
    /\ resp' = [op |-> "none", status |-> 0, error |-> ""]
    /\ UNCHANGED <<users, files, redis, disk, storageDir, fileQueue, userQueue,
                   nextToken, nextUuid, reqs>>

Next ==
    \/ \E e \in Emails, p \in RegPasswords : PostNew(e, p)
    \/ \E t \in Tokens : GetMe(t)
    \/ \E c \in Creds : GetConnect(c)
    \/ \E t \in Tokens : GetDisconnect(t)
    \/ \E t \in Tokens, b \in UploadBodies :
          PostUpload(t, b.name, b.type, b.isPublic, b.data, b.parentId)
    \/ \E t \in Tokens, id \in IdInputs : GetShow(t, id)
    \/ \E t \in Tokens, par \in ParentInputs, pg \in Pages : GetIndex(t, par, pg)
    \/ \E t \in Tokens, id \in IdInputs : PutPublish(t, id)
    \/ \E t \in Tokens, id \in IdInputs : PutUnpublish(t, id)
    \/ \E t \in Tokens, id \in IdInputs, sz \in Sizes : GetFile(t, id, sz)
    \/ Tick

Spec == Init /\ [][Next]_vars

(* ---- handlers step by step: one action per await ---- *)
\* a new request takes the first free slot
FreeSlot(s) == reqs[s] = Idle /\ \A r \in 1..(s - 1) : reqs[r] # Idle

Respond(op, status, error) == resp' = [op |-> op, status |-> status, error |-> error]

\* postNew up to its first await: the checks on the body
PostNewStart(s, email, password) ==
    /\ FreeSlot(s)
    /\ IF email = <<>>
       THEN Respond("postNew", 400, "Missing email") /\ UNCHANGED reqs
       ELSE IF password = <<>>
       THEN Respond("postNew", 400, "Missing password") /\ UNCHANGED reqs
       ELSE /\ reqs' = [reqs EXCEPT ![s] = [Idle EXCEPT !.op = "postNew",
                           !.pc = "findOne", !.email = email,
                           !.password = password]]
            /\ UNCHANGED resp
    /\ UNCHANGED <<users, files, redis, now, disk, storageDir, fileQueue,
                   userQueue, nextToken, nextUuid>>

\* await users.findOne({ email })
PostNewFindOne(s) ==
    /\ reqs[s].op = "postNew" /\ reqs[s].pc = "findOne"
    /\ IF Find(users, LAMBDA u : u.email = reqs[s].email) # <<>>
       THEN /\ Respond("postNew", 400, "Already exist")
            /\ reqs' = [reqs EXCEPT ![s] = Idle]
       ELSE /\ reqs' = [reqs EXCEPT ![s].pc = "insertOne"]
            /\ UNCHANGED resp
    /\ UNCHANGED <<users, files, redis, now, disk, storageDir, fileQueue,
                   userQueue, nextToken, nextUuid>>

\* await users.insertOne({ email, password: hashedPassword })
PostNewInsertOne(s) ==
    /\ reqs[s].op = "postNew" /\ reqs[s].pc = "insertOne"
    /\ Len(users) < MaxUsers /\ Size < MaxSize
    /\ users' = Append(users, [_id |-> NewUserId, email |-> reqs[s].email,
                               password |-> sha1(reqs[s].password)])
    /\ userQueue' = Append(userQueue, [userId |-> NewUserId])
    /\ Respond("postNew", 201, "")
    /\ reqs' = [reqs EXCEPT ![s] = Idle]
    /\ UNCHANGED <<files, redis, now, disk, storageDir, fileQueue,
                   nextToken, nextUuid>>

\* the await a postUpload request reaches once its parent is settled
AfterParent(type) == IF type = "folder" THEN "insertFolder" ELSE "writeFile"

\* postUpload up to the parent lookup: the session lookup and the body checks
UploadStart(s, token, body) ==
    /\ FreeSlot(s)
    /\ LET userId == RedisGet(token)
           parentId0 == BodyParent(body.parentId)
       IN
       IF token = NoToken \/ ~Truthy(userId)
       THEN Respond("postUpload", 401, "Unauthorized") /\ UNCHANGED reqs
       ELSE IF ValidationError(body.name, body.type, body.data) # ""
       THEN /\ Respond("postUpload", 400,
                       ValidationError(body.name, body.type, body.data))
            /\ UNCHANGED reqs
       ELSE /\ reqs' = [reqs EXCEPT ![s] = [Idle EXCEPT !.op = "postUpload",
                           !.pc = IF parentId0 # RootStr THEN "findParent"
                                  ELSE AfterParent(body.type),
                           !.userId = userId, !.body = body]]
            /\ UNCHANGED resp
    /\ UNCHANGED <<users, files, redis, now, disk, storageDir, fileQueue,
                   userQueue, nextToken, nextUuid>>

\* await files.findOne({ _id: ObjectId(parentId) })
UploadFindParent(s) ==
    /\ reqs[s].op = "postUpload" /\ reqs[s].pc = "findParent"
    /\ LET error == ParentError(BodyParent(reqs[s].body.parentId)) IN
       IF error # ""
       THEN /\ Respond("postUpload", 400, error)
            /\ reqs' = [reqs EXCEPT ![s] = Idle]
       ELSE /\ reqs' = [reqs EXCEPT ![s].pc = AfterParent(reqs[s].body.type)]
            /\ UNCHANGED resp
    /\ UNCHANGED <<users, files, redis, now, disk, storageDir, fileQueue,
                   userQueue, nextToken, nextUuid>>

\* await files.insertOne({ userId, name, type, isPublic, parentId })
UploadInsertFolder(s) ==
    /\ reqs[s].op = "postUpload" /\ reqs[s].pc = "insertFolder"
    /\ Len(files) < MaxFiles /\ Size < MaxSize
    /\ LET b == reqs[s].body IN
       files' = Append(files, FolderDoc(reqs[s].userId, b.name, b.type, b.isPublic,
                                        BodyParent(b.parentId)))
    /\ Respond("postUpload", 201, "")
    /\ reqs' = [reqs EXCEPT ![s] = Idle]
    /\ UNCHANGED <<users, redis, now, disk, storageDir, fileQueue, userQueue,
                   nextToken, nextUuid>>

\* uuidv4(), await mkdir(folderName), await writeFile(localPath, bytes)
UploadWriteFile(s) ==
    /\ reqs[s].op = "postUpload" /\ reqs[s].pc = "writeFile"
    /\ LET localPath == LocalPath(nextUuid, "") IN
       /\ nextUuid' = nextUuid + 1
       /\ storageDir' = TRUE
       /\ disk' = WriteFile(localPath, FromBase64(reqs[s].body.data))
       /\ reqs' = [reqs EXCEPT ![s].pc = "insertFile", ![s].localPath = localPath]
    /\ UNCHANGED <<users, files, redis, now, fileQueue, userQueue, nextToken, resp>>

\* await files.insertOne({ localPath, ...folderData }), fileQueue.add, the reply
UploadInsertFile(s) ==
    /\ reqs[s].op = "postUpload" /\ reqs[s].pc = "insertFile"
    /\ Len(files) < MaxFiles /\ Size < MaxSize
    /\ LET b == reqs[s].body IN
       /\ files' = Append(files, FileDoc(reqs[s].localPath, reqs[s].userId, b.name,
                                         b.type, b.isPublic, BodyParent(b.parentId)))
       /\ fileQueue' = Enqueue(b.type, reqs[s].userId)
    /\ Respond("postUpload", 201, "")
    /\ reqs' = [reqs EXCEPT ![s] = Idle]
    /\ UNCHANGED <<users, redis, now, disk, storageDir, userQueue, nextToken,
                   nextUuid>>

\* the bodies of the concurrent uploads: folders and files, at the root and
\* under the first entry
ConcBodies == {b \in UploadBodies : /\ b.isPublic = "undefined"
                                    /\ b.type \in {"folder", "file"}
                                    /\ b.data # <<>>
                                    /\ b.parentId \in {Null, Str("files", 1)}}


NextConc ==
    \/ \E s \in Slots, e \in Emails, p \in RegPasswords : PostNewStart(s, e, p)
    \/ \E s \in Slots : PostNewFindOne(s)
    \/ \E s \in Slots : PostNewInsertOne(s)
    \/ \E c \in Creds : GetConnect(c)
    \/ \E s \in Slots, t \in Tokens, b \in ConcBodies : UploadStart(s, t, b)
    \/ \E s \in Slots : UploadFindParent(s)
    \/ \E s \in Slots : UploadInsertFolder(s)
    \/ \E s \in Slots : UploadWriteFile(s)
    \/ \E s \in Slots : UploadInsertFile(s)

SpecConc == Init /\ [][NextConc]_vars

(* ======================= uploads with failing I/O ======================= *)
\* what a rejected writeFile can leave at the path: a strict prefix of the bytes
StrictPrefixes(bytes) == {SubSeq(bytes, 1, k) : k \in 0..(Len(bytes) - 1)}

\* a rejected writeFile whose error is swallowed: the handler goes on to insertOne
UploadWriteFileFailsSwallowed(s) ==
    /\ reqs[s].op = "postUpload" /\ reqs[s].pc = "writeFile"
    /\ nextUuid <= MaxUuid
    /\ LET localPath == LocalPath(nextUuid, "") IN
       /\ nextUuid' = nextUuid + 1
       /\ storageDir' = TRUE
       /\ \E part \in StrictPrefixes(FromBase64(reqs[s].body.data)) :
             disk' = WriteFile(localPath, part)
       /\ reqs' = [reqs EXCEPT ![s].pc = "insertFile", ![s].localPath = localPath]
    /\ UNCHANGED <<users, files, redis, now, fileQueue, userQueue, nextToken, resp>>

\* await mkdir or await writeFile rejects: the handler throws before insertOne;
\* nothing, the directory alone, or a truncated file is left behind
UploadWriteFileFails(s) ==
    /\ reqs[s].op = "postUpload" /\ reqs[s].pc = "writeFile"
    /\ nextUuid <= MaxUuid
    /\ LET localPath == LocalPath(nextUuid, "") IN
       /\ nextUuid' = nextUuid + 1
       /\ \/ storageDir' = storageDir /\ disk' = disk
          \/ storageDir' = TRUE /\ disk' = disk
          \/ /\ storageDir' = TRUE
             /\ \E part \in StrictPrefixes(FromBase64(reqs[s].body.data)) :
                   disk' = WriteFile(localPath, part)
    /\ Respond("postUpload", Exception.status, Exception.error)
    /\ reqs' = [reqs EXCEPT ![s] = Idle]
    /\ UNCHANGED <<users, files, redis, now, fileQueue, userQueue, nextToken>>

\* await files.insertOne rejects: the handler throws with the bytes written
UploadInsertFileFails(s) ==
    /\ reqs[s].op = "postUpload" /\ reqs[s].pc = "insertFile"
    /\ reqs[s].localPath.uuid <= MaxUuid
    /\ Respond("postUpload", Exception.status, Exception.error)
    /\ reqs' = [reqs EXCEPT ![s] = Idle]
    /\ UNCHANGED <<users, files, redis, now, disk, storageDir, fileQueue, userQueue,
                   nextToken, nextUuid>>

\* a rejected fileQueue.add that is awaited: the handler throws after insertOne
UploadEnqueueFailsSurfaced(s) ==
    /\ reqs[s].op = "postUpload" /\ reqs[s].pc = "insertFile"
    /\ reqs[s].body.type = "image"
    /\ Len(files) < MaxFiles /\ Size < MaxSize
    /\ LET b == reqs[s].body IN
       files' = Append(files, FileDoc(reqs[s].localPath, reqs[s].userId, b.name,
                                      b.type, b.isPublic, BodyParent(b.parentId)))
    /\ Respond("postUpload", Exception.status, Exception.error)
    /\ reqs' = [reqs EXCEPT ![s] = Idle]
    /\ UNCHANGED <<users, redis, now, disk, storageDir, fileQueue, userQueue,
                   nextToken, nextUuid>>

\* fileQueue.add rejects: the promise is not awaited, the handler goes on
UploadEnqueueFails(s) ==
    /\ reqs[s].op = "postUpload" /\ reqs[s].pc = "insertFile"
    /\ reqs[s].body.type = "image"
    /\ Len(files) < MaxFiles /\ Size < MaxSize
    /\ LET b == reqs[s].body IN
       files' = Append(files, FileDoc(reqs[s].localPath, reqs[s].userId, b.name,
                                      b.type, b.isPublic, BodyParent(b.parentId)))
    /\ Respond("postUpload", 201, "")
    /\ reqs' = [reqs EXCEPT ![s] = Idle]
    /\ UNCHANGED <<users, redis, now, disk, storageDir, fileQueue, userQueue,
                   nextToken, nextUuid>>

\* the bodies of the uploads with failing I/O: every kind at the root, a file
\* under the first entry, and one body that is rejected
FaultBodies ==
    {[PlainBody EXCEPT !.type = type] : type \in {"folder", "file", "image"}}
    \cup {[PlainBody EXCEPT !.parentId = Str("files", 1)],
          [PlainBody EXCEPT !.type = "image", !.name = ""]}

\* the Authorization payloads of the registered users
FaultCreds == {e \o <<":">> \o p : e \in Emails, p \in RegPasswords}

\* the uploads with failing I/O run one request at a time
FaultSlots == {1}

NextFault ==
    \/ \E e \in Emails, p \in RegPasswords : PostNew(e, p)
    \/ \E c \in FaultCreds : GetConnect(c)
    \/ \E s \in FaultSlots, t \in Tokens, b \in FaultBodies : UploadStart(s, t, b)
    \/ \E s \in FaultSlots : UploadFindParent(s)
    \/ \E s \in FaultSlots : UploadInsertFolder(s)
    \/ \E s \in FaultSlots : UploadWriteFile(s)
    \/ \E s \in FaultSlots : UploadWriteFileFails(s)
    \/ \E s \in FaultSlots : UploadInsertFile(s)
    \/ \E s \in FaultSlots : UploadInsertFileFails(s)
    \/ \E s \in FaultSlots : UploadEnqueueFails(s)

SpecFault == Init /\ [][NextFault]_vars

(* ======================= uploads under another user's folder ======================= *)
\* the bodies of the uploads into shared folders: every kind, at the root and
\* under the first entry
ShareBodies ==
    {[PlainBody EXCEPT !.type = type, !.parentId = par] :
        type \in {"folder", "file", "image"}, par \in {Null, Str("files", 1)}}

\* postUpload bounded by the number of entries alone, so that two users, their
\* two sessions and two entries are reached
PostUploadShared(token, body) ==
    LET r == PostUploadRes(token, body.name, body.type, body.isPublic, body.data,
                           body.parentId)
    IN /\ r.status = 201 => Len(files) < MaxFiles
       /\ Apply("postUpload", r)

NextShare ==
    \/ \E e \in Emails, p \in RegPasswords : PostNew(e, p)
    \/ \E c \in Creds : GetConnect(c)
    \/ \E t \in Tokens : GetDisconnect(t)
    \/ \E t \in Tokens, b \in ShareBodies : PostUploadShared(t, b)
    \/ \E t \in Tokens, par \in ParentInputs, pg \in Pages : GetIndex(t, par, pg)

SpecShare == Init /\ [][NextShare]_vars

(* ======================= concurrent toggles ======================= *)
\* $set: { isPublic: true } in putPublish, false in putUnpublish
ToggleValue(op) == (op = "putPublish")

TogglePending(s, pc) ==
    reqs[s].op \in {"putPublish", "putUnpublish"} /\ reqs[s].pc = pc

\* a toggle up to its first lookup in the collection: the session lookup
ToggleStart(s, op, token, fileId) ==
    /\ FreeSlot(s)
    /\ LET userId == RedisGet(token) IN
       IF token = NoToken \/ ~Truthy(userId)
       THEN Respond(op, 401, "Unauthorized") /\ UNCHANGED reqs
       ELSE /\ reqs' = [reqs EXCEPT ![s] = [Idle EXCEPT !.op = op, !.pc = "findOne",
                           !.userId = userId, !.fileId = fileId]]
            /\ UNCHANGED resp
    /\ UNCHANGED <<users, files, redis, now, disk, storageDir, fileQueue,
                   userQueue, nextToken, nextUuid>>

\* await files.findOne({ _id: ObjectId(fileId), userId: ObjectId(userId) })
ToggleFindOne(s) ==
    /\ TogglePending(s, "findOne")
    /\ IF Find(files, LAMBDA f : f._id = ObjectId(reqs[s].fileId)
                                 /\ f.userId = ObjectId(reqs[s].userId)) = <<>>
       THEN /\ Respond(reqs[s].op, 404, "Not found")
            /\ reqs' = [reqs EXCEPT ![s] = Idle]
       ELSE /\ reqs' = [reqs EXCEPT ![s].pc = "updateOne"]
            /\ UNCHANGED resp
    /\ UNCHANGED <<users, files, redis, now, disk, storageDir, fileQueue,
                   userQueue, nextToken, nextUuid>>

\* await files.updateOne({ _id: ObjectId(fileId) }, { $set: { isPublic } })
ToggleUpdateOne(s) ==
    /\ TogglePending(s, "updateOne")
    /\ files' = UpdateIsPublic(files, ObjectId(reqs[s].fileId), ToggleValue(reqs[s].op))
    /\ reqs' = [reqs EXCEPT ![s].pc = "updatedFile"]
    /\ UNCHANGED <<users, redis, now, disk, storageDir, fileQueue, userQueue,
                   nextToken, nextUuid, resp>>

\* updatedFile = await files.findOne({ _id: ObjectId(fileId) }), as it is read
\* when the last step of the request runs
UpdatedFile(s) == Find(files, LAMBDA f : f._id = ObjectId(reqs[s].fileId))[1]

\* the second findOne and res.status(200).json(updatedFile)
ToggleRespond(s) ==
    /\ TogglePending(s, "updatedFile")
    /\ Respond(reqs[s].op, 200, "")
    /\ reqs' = [reqs EXCEPT ![s] = Idle]
    /\ UNCHANGED <<users, files, redis, now, disk, storageDir, fileQueue,
                   userQueue, nextToken, nextUuid>>

\* the uploads toggled: a file and a folder at the root
ToggleBodies == {PlainBody, [PlainBody EXCEPT !.type = "folder"]}

NextToggle ==
    \/ \E e \in Emails \ {<<>>} : PostNew(e, <<"p">>)
    \/ \E c \in FaultCreds : GetConnect(c)
    \/ \E t \in Tokens, b \in ToggleBodies :
          PostUpload(t, b.name, b.type, b.isPublic, b.data, b.parentId)
    \/ \E s \in Slots, op \in {"putPublish", "putUnpublish"}, t \in Tokens,
          id \in IdInputs : ToggleStart(s, op, t, id)
    \/ \E s \in Slots : ToggleFindOne(s)
    \/ \E s \in Slots : ToggleUpdateOne(s)
    \/ \E s \in Slots : ToggleRespond(s)

SpecToggle == Init /\ [][NextToggle]_vars

(* ======================= properties ======================= *)
\* the live session of a token, read from the store itself
Session(t) == {e \in redis : e.key = t /\ now < e.exp}
Authenticated(t) == Session(t) # {}
\* the user a live session belongs to, and the user an entry belongs to
CallerOf(t) == (CHOOSE e \in Session(t) : TRUE).value.v
OwnerOf(f) == f.userId.v
IdOf(f) == toString(f._id)
\* the caller may read the entry: it is public, or the caller owns it
Permitted(t, f) == f.isPublic \/ (Authenticated(t) /\ CallerOf(t) = OwnerOf(f))
FileIndexes == 1..Len(files)
OwnerOps == {"postUpload", "getShow", "getIndex", "putPublish", "putUnpublish", "getMe"}

\* every owner-scoped handler answers Unauthorized and writes nothing
AllUnauthorized(t) ==
    /\ GetMeRes(t) = Unauthorized
    /\ \A b \in AllBodies :
          PostUploadRes(t, b.name, b.type, b.isPublic, b.data, b.parentId) = Unauthorized
    /\ \A id \in IdInputs :
          /\ GetShowRes(t, id) = Unauthorized
          /\ PutPublishRes(t, id) = Unauthorized
          /\ PutUnpublishRes(t, id) = Unauthorized
    /\ \A par \in ParentInputs, pg \in Pages : GetIndexRes(t, par, pg) = Unauthorized

\* C1: getFile answers 404 Not found, and never the content, whenever the entry
\* is private and the caller has no live session (no token, unknown, logged-out
\* or expired token) or has the session of a user other than the owner.
C1_PrivateNeverServed ==
    \A t \in Tokens, i \in FileIndexes, sz \in Sizes :
        (~files[i].isPublic
         /\ (~Authenticated(t) \/ CallerOf(t) # OwnerOf(files[i])))
        => GetFileRes(t, IdOf(files[i]), sz) = NotFound

\* a getFile was answered 404 while a private file exists together with the live
\* session of another user, an expired session and an issued token without entry
C1_Witness ==
    /\ resp.op = "getFile" /\ resp.status = 404
    /\ \E i \in FileIndexes :
          /\ ~files[i].isPublic /\ files[i].type # "folder"
          /\ \E t \in Tokens : Authenticated(t) /\ CallerOf(t) # OwnerOf(files[i])

\* C2 as written: for every entry and caller getFile succeeds exactly when the
\* entry is public or the caller is its owner, and answers Not found otherwise.
C2_FetchIffPermitted ==
    \A t \in Tokens, i \in FileIndexes :
        LET r == GetFileRes(t, IdOf(files[i]), "") IN
        IF Permitted(t, files[i]) THEN r.status = 200 ELSE r = NotFound

\* C2 amended: for every entry of kind file or image whose bytes are stored,
\* fetched without a size token, getFile succeeds exactly when the entry is
\* public or the caller is its owner and answers Not found otherwise; for a
\* folder it never succeeds: 400 "A folder doesn't have content" where the
\* access rule permits, Not found where it does not.
C2_FetchIffPermittedFile ==
    \A t \in Tokens, i \in FileIndexes :
        LET r == GetFileRes(t, IdOf(files[i]), "") IN
        IF ~Permitted(t, files[i]) THEN r = NotFound
        ELSE IF files[i].type = "folder"
        THEN r = Reply(400, "A folder doesn't have content", <<>>, Same)
        ELSE /\ r.status = 200
             /\ r.post = Same
             /\ \E d \in disk : d.path = files[i].localPath /\ d.bytes = r.body.bytes

\* a getFile succeeded while a private file has its owner logged in and a
\* public folder exists
C2_Witness ==
    /\ resp.op = "getFile" /\ resp.status = 200
    /\ \E i \in FileIndexes, t \in Tokens :
          /\ ~files[i].isPublic /\ files[i].type # "folder"
          /\ Authenticated(t) /\ CallerOf(t) = OwnerOf(files[i])

\* C3: with no token, an unknown token or an expired token, every owner-scoped
\* handler gives the same 401 Unauthorized answer and leaves the session store,
\* the collections, the disk and the queues as they were.
C3_UnauthorizedNoEffect ==
    \A t \in Tokens : ~Authenticated(t) => AllUnauthorized(t)

\* an owner-scoped request was answered 401 while an expired session and a
\* never-issued token exist next to stored entries
C3_Witness ==
    /\ resp.op \in OwnerOps /\ resp.status = 401
    /\ \E e \in redis : e.exp <= now
    /\ nextToken <= MaxTokens
    /\ files # <<>>

\* C4: no two user records share an email, under any interleaving of postNew
\* requests.
C4_UniqueEmails ==
    \A i, j \in 1..Len(users) : i # j => users[i].email # users[j].email

\* an issued token whose key is no longer in the session store: logged out
LoggedOut(t) == t \in 1..(nextToken - 1) /\ ~\E e \in redis : e.key = t

\* C5 (states): with a logged-out token every owner-scoped handler and a second
\* getDisconnect answer Unauthorized, and getFile answers as it does without token.
C5_LoggedOutState ==
    \A t \in Tokens : LoggedOut(t) =>
        /\ AllUnauthorized(t)
        /\ GetDisconnectRes(t) = Unauthorized
        /\ \A id \in IdInputs, sz \in Sizes :
              GetFileRes(t, id, sz) = GetFileRes(NoToken, id, sz)

\* C5 (steps): a getDisconnect answered 204 removes the key of a live session,
\* and a logged-out token stays logged out.
C5_LoggedOutStep ==
    /\ (resp'.op = "getDisconnect" /\ resp'.status = 204) =>
          \E t \in Tokens : Authenticated(t) /\ LoggedOut(t)'
    /\ \A t \in Tokens : LoggedOut(t) => LoggedOut(t)'

\* C5: after a successful logout with token T every later request presenting T
\* is answered Unauthorized (getFile: treated as unauthenticated), forever.
C5_LogoutIsFinal == [](C5_LoggedOutState) /\ [][C5_LoggedOutStep]_vars

\* an owner-scoped request was answered 401 when the only token ever issued is
\* logged out before its expiry
C5_Witness ==
    /\ resp.op \in OwnerOps /\ resp.status = 401
    /\ nextToken = 2 /\ LoggedOut(1)
    /\ now < 86400
    /\ files # <<>>

\* C6 (states): a stored session resolves to its user exactly while the clock is
\* before its expiry, and a token has at most one session.
C6_ExpiryState ==
    /\ \A e \in redis :
          /\ GetMeRes(e.key).status = (IF now < e.exp THEN 200 ELSE 401)
          /\ now < e.exp => GetMeRes(e.key).body.id = e.value
    /\ \A e1, e2 \in redis : e1.key = e2.key => e1 = e2

\* C6 (steps): a session appears only by a successful getConnect, with expiry
\* 24 hours after the clock, and no step changes the expiry of a session.
C6_ExpiryStep ==
    \A e \in redis' :
        \/ e \in redis
        \/ /\ resp'.op = "getConnect" /\ resp'.status = 200
           /\ e.exp = now + 86400
           /\ ~\E o \in redis : o.key = e.key

\* C6: a session created at time t resolves before t + 24 h and is Unauthorized
\* from t + 24 h on, however often it was used: only login sets an expiry.
C6_FixedLifetime == [](C6_ExpiryState) /\ [][C6_ExpiryStep]_vars

\* getMe was answered 401 when the only session ever created is still stored
\* and has reached its expiry
C6_Witness ==
    /\ resp.op = "getMe" /\ resp.status = 401
    /\ nextToken = 2
    /\ \E e \in redis : e.key = 1 /\ e.exp = 86400 /\ now >= e.exp

\* the credentials the client presents in "email:password": the email ends at
\* the first colon, the password is everything after it
HasColon(cred) == \E i \in 1..Len(cred) : cred[i] = ":"
FirstColon(cred) ==
    CHOOSE i \in 1..Len(cred) : cred[i] = ":" /\ \A j \in 1..(i - 1) : cred[j] # ":"
PresentedEmail(cred) ==
    IF HasColon(cred) THEN SubSeq(cred, 1, FirstColon(cred) - 1) ELSE cred
PresentedPassword(cred) ==
    IF HasColon(cred) THEN SubSeq(cred, FirstColon(cred) + 1, Len(cred)) ELSE <<>>
\* the users whose email and password digest the credentials match
Matching(cred) ==
    {i \in 1..Len(users) :
        /\ PresentedEmail(cred) # <<>> /\ PresentedPassword(cred) # <<>>
        /\ users[i].email = PresentedEmail(cred)
        /\ users[i].password = sha1(PresentedPassword(cred))}

\* C7: getConnect creates a session only for credentials that match a user
\* record, bound to that user's id; with a missing email, a missing password, an
\* unknown email or a wrong password it answers Unauthorized and leaves the
\* session store unchanged.
C7_SessionOnlyForMatchingCredentials ==
    \A cred \in Creds :
        LET r == GetConnectRes(cred) IN
        IF Matching(cred) = {} THEN r = Unauthorized
        ELSE r.status = 200 =>
                \E i \in Matching(cred) :
                    r.post.redis = redis \cup
                        {[key |-> r.body.token, value |-> toString(users[i]._id),
                          exp |-> now + 86400]}

\* C8: the parentId of every entry is the root sentinel or the _id of a stored
\* entry of type folder.
C8_ParentIsFolder ==
    \A i \in FileIndexes :
        \/ files[i].parentId = RootStr
        \/ \E j \in FileIndexes :
              files[j]._id = files[i].parentId /\ files[j].type = "folder"

\* an upload under a folder was committed while another upload is in flight
C8_Witness ==
    /\ resp.op = "postUpload" /\ resp.status = 201
    /\ \E i \in FileIndexes : files[i].parentId # RootStr
    /\ \E s \in Slots : reqs[s].op = "postUpload"

\* the parent reference a client sends to list the folder an entry is in
ParentQuery(f) == IF f.parentId = RootStr THEN Null ELSE toString(f.parentId)
\* the entries of a user in a folder, in storage order
Children(u, parentId) ==
    SelectSeq(files, LAMBDA f : OwnerOf(f) = u /\ f.parentId = parentId)

\* C9: for a logged-in user U, page p of the listing of a folder is the entries
\* with owner U and that parent, in storage order, from p * 20, at most 20: so
\* every entry U uploaded, of any kind, is on a page of its parent's listing.
C9_ListingComplete ==
    \A t \in Tokens : Authenticated(t) =>
        \A i \in FileIndexes : OwnerOf(files[i]) = CallerOf(t) =>
            \A pg \in 0..MaxPage :
                LET r == GetIndexRes(t, ParentQuery(files[i]), pg)
                    all == Children(CallerOf(t), files[i].parentId)
                    want == SkipLimit(all, pg * 20, 20)
                IN /\ r.status = 200
                   /\ Len(r.body) = Len(want)
                   /\ \A k \in 1..Len(want) : r.body[k].id = want[k]._id

\* C10: a toggle of an entry by its logged-in owner, whatever the entry's kind,
\* finds it, stores the requested isPublic and returns the record.
C10_OwnerToggleSucceeds ==
    \A t \in Tokens : Authenticated(t) =>
        \A i \in FileIndexes, value \in BOOLEAN :
            OwnerOf(files[i]) = CallerOf(t) =>
                LET r == SetPublicRes(t, IdOf(files[i]), value) IN
                /\ r.status = 200
                /\ r.post.files = [files EXCEPT ![i].isPublic = value]
                /\ r.body = r.post.files[i]

Toggles == {"putPublish", "putUnpublish"}

\* every toggle of an entry by the live session of a user other than its owner
\* is answered Not found and writes nothing
C11_NonOwnerRefused ==
    \A t \in Tokens, i \in FileIndexes, value \in BOOLEAN :
        (Authenticated(t) /\ CallerOf(t) # OwnerOf(files[i]))
        => SetPublicRes(t, IdOf(files[i]), value) = NotFound

\* a step that changes the isPublic of an entry is a toggle answered 200, made
\* with the live session of the entry's owner
C11_ChangedByOwnerToggle ==
    \A i \in FileIndexes :
        (i <= Len(files') /\ files'[i].isPublic # files[i].isPublic)
        => /\ resp'.op \in Toggles /\ resp'.status = 200
           /\ \E t \in Tokens : Authenticated(t) /\ CallerOf(t) = OwnerOf(files[i])

\* C11: a toggle by an authenticated user who is not the owner of the entry is
\* answered Not found and leaves isPublic as it was; the isPublic of an entry
\* changes only as the effect of a toggle by its owner.
C11_OnlyOwnerToggles == []C11_NonOwnerRefused /\ [][C11_ChangedByOwnerToggle]_vars

\* a toggle was answered 404 while the caller's live session belongs to a user
\* other than the owner of a stored private file
C11_Witness ==
    /\ resp.op \in Toggles /\ resp.status = 404
    /\ \E i \in FileIndexes :
          /\ ~files[i].isPublic /\ files[i].type = "file"
          /\ \E t \in Tokens : Authenticated(t) /\ CallerOf(t) # OwnerOf(files[i])
          /\ \A t \in Tokens : Authenticated(t) => CallerOf(t) # OwnerOf(files[i])

\* the ids a client can send that name no stored entry
MissingIds ==
    {id \in FileIdStrs \cup {Str("files", MaxFiles + 1)} :
        \A i \in FileIndexes : files[i]._id # ObjectId(id)}

\* C12: for a caller who is not the owner (no session, or the session of another
\* user), the whole response of getFile, putPublish and putUnpublish for the id
\* of an existing private entry of any kind, folders included, is the response
\* the same caller gets for an id that names no entry.
C12_PrivateLooksAbsent ==
    \A t \in Tokens, i \in FileIndexes :
        (~files[i].isPublic
         /\ (~Authenticated(t) \/ CallerOf(t) # OwnerOf(files[i])))
        => \A none \in MissingIds :
              /\ \A sz \in Sizes :
                    GetFileRes(t, IdOf(files[i]), sz) = GetFileRes(t, none, sz)
              /\ \A value \in BOOLEAN :
                    SetPublicRes(t, IdOf(files[i]), value) = SetPublicRes(t, none, value)

\* a getFile was answered 404 while a private folder exists and the only live
\* session belongs to a user who does not own it
C12_Witness ==
    /\ resp.op = "getFile" /\ resp.status = 404
    /\ \E i \in FileIndexes :
          /\ ~files[i].isPublic /\ files[i].type = "folder"
          /\ \E t \in Tokens : Authenticated(t)
          /\ \A t \in Tokens : Authenticated(t) => CallerOf(t) # OwnerOf(files[i])

RECURSIVE SextetValue(_)
\* the number a sequence of 6-bit digits writes in base 64
SextetValue(s) ==
    IF s = <<>> THEN 0 ELSE SextetValue(SubSeq(s, 1, Len(s) - 1)) * 64 + s[Len(s)]

\* base64 decoding by its definition: the bits of the digits, most significant
\* first, cut into whole bytes, the incomplete last byte dropped
DecodedBytes(s) ==
    LET nbytes == (6 * Len(s)) \div 8
        whole == SextetValue(s) \div (2 ^ (6 * Len(s) - 8 * nbytes))
    IN [k \in 1..nbytes |-> (whole \div (256 ^ (nbytes - k))) % 256]

\* "aGk=", "QQ==", "TWFu" and "TWFuT": every length of the last group
RoundTripDatas == {<<26, 6, 36>>, <<16, 16>>, <<19, 22, 5, 46>>, <<19, 22, 5, 46, 19>>}

\* every accepted upload of a file or an image writes the decoded data at a fresh
\* location, commits a record that references it, and leaves the other bytes
C13_UploadStoresDecoded ==
    \A t \in Tokens, type \in {"file", "image"}, data \in RoundTripDatas,
       par \in ParentInputs :
        LET r == PostUploadRes(t, "a.txt", type, "undefined", data, par) IN
        r.status = 201 =>
            LET new == r.post.files[Len(r.post.files)] IN
            /\ new.localPath = r.body.localPath /\ new._id = r.body.id
            /\ \A i \in FileIndexes :
                  r.post.files[i] = files[i]
                  /\ ("localPath" \in DOMAIN files[i] => files[i].localPath # new.localPath)
            /\ \A d \in r.post.disk :
                  IF d.path = new.localPath THEN d.bytes = DecodedBytes(data)
                  ELSE d \in disk
            /\ \E d \in r.post.disk : d.path = new.localPath
            /\ disk \subseteq r.post.disk

\* the owner of every stored file and image is served, without a size, the
\* bytes at the location of the record: the decoded data of its upload
C13_OwnerReadsDecoded ==
    \A i \in FileIndexes : files[i].type # "folder" =>
        /\ \E data \in Datas \ {<<>>} :
              {d.bytes : d \in {e \in disk : e.path = files[i].localPath}}
                  = {DecodedBytes(data)}
        /\ \A t \in Tokens : (Authenticated(t) /\ CallerOf(t) = OwnerOf(files[i])) =>
              LET r == GetFileRes(t, IdOf(files[i]), "") IN
              /\ r.status = 200
              /\ \E data \in Datas \ {<<>>} : r.body.bytes = DecodedBytes(data)

\* C13: for every accepted upload of kind file or image, a later getFile by the
\* owner without a size token returns the bytes of the base64-decoded data
\* field, in every reachable state: the upload writes exactly the decoded bytes
\* at a location no other record has, and nothing overwrites or removes them.
C13_RoundTrip == C13_UploadStoresDecoded /\ C13_OwnerReadsDecoded

\* the owner was served a private file that was uploaded before another entry
C13_Witness ==
    /\ resp.op = "getFile" /\ resp.status = 200
    /\ Len(files) = 2 /\ files[1].type = "file" /\ ~files[1].isPublic
    /\ files[2].type = "image" /\ ~files[2].isPublic
    /\ \E t \in Tokens : Authenticated(t) /\ CallerOf(t) = OwnerOf(files[1])

\* C14: every accepted creation of a folder writes no bytes (the disk, the
\* storage directory and the path counter are untouched) and enqueues nothing;
\* the committed record and the returned record have no localPath; the returned
\* parentId is the parent named in the request, or the root sentinel when the
\* request named none.
C14_FolderCreation ==
    \A t \in Tokens, b \in AllBodies : b.type = "folder" =>
        LET r == PostUploadRes(t, b.name, b.type, b.isPublic, b.data, b.parentId) IN
        r.status = 201 =>
            LET new == r.post.files[Len(r.post.files)] IN
            /\ r.post = [Same EXCEPT !.files = Append(files, new)]
            /\ "localPath" \notin DOMAIN new
            /\ "localPath" \notin DOMAIN r.body
            /\ r.body.id = new._id /\ new.type = "folder" /\ r.body.type = "folder"
            /\ IF b.parentId \in {Null, RootStr}
               THEN r.body.parentId = RootNum /\ new.parentId = RootStr
               ELSE /\ toString(r.body.parentId) = b.parentId
                    /\ new.parentId = r.body.parentId

\* a folder was created under another folder and no byte was ever written
C14_Witness ==
    /\ resp.op = "postUpload" /\ resp.status = 201
    /\ Len(files) = 2 /\ files[2].type = "folder" /\ files[2].parentId = files[1]._id
    /\ disk = {} /\ ~storageDir

\* the bytes stored at a path of a disk: empty when no file is there
BytesIn(dsk, path) == {d.bytes : d \in {e \in dsk : e.path = path}}
InsertPending(s) == reqs[s].op = "postUpload" /\ reqs[s].pc = "insertFile"
WritePending(s) == reqs[s].op = "postUpload" /\ reqs[s].pc = "writeFile"

\* every request about to insert has its decoded bytes complete at its path, and
\* every record of a file or an image references completely written bytes
C15_CompleteBytes ==
    /\ \A s \in Slots : InsertPending(s) =>
          BytesIn(disk, reqs[s].localPath) = {DecodedBytes(reqs[s].body.data)}
    /\ \A i \in FileIndexes : files[i].type # "folder" =>
          \E data \in Datas \ {<<>>} :
              BytesIn(disk, files[i].localPath) = {DecodedBytes(data)}

\* a record of a file or an image is committed by a request whose bytes were
\* complete at the record's path before the step; a write or an insert that ends
\* the request with an exception commits nothing; committed bytes never change
C15_WriteThenInsert ==
    /\ (Len(files') > Len(files) /\ files'[Len(files')].type # "folder") =>
          \E s \in Slots :
              /\ InsertPending(s) /\ reqs'[s] = Idle
              /\ files'[Len(files')].localPath = reqs[s].localPath
              /\ BytesIn(disk, reqs[s].localPath) = {DecodedBytes(reqs[s].body.data)}
              /\ disk' = disk
    /\ \A s \in Slots :
          ((WritePending(s) \/ InsertPending(s))
           /\ reqs'[s] = Idle /\ resp'.status = Exception.status)
          => files' = files /\ fileQueue' = fileQueue
    /\ \A s \in Slots : (WritePending(s) /\ reqs'[s] = Idle) => files' = files
    /\ \A i \in FileIndexes : files[i].type # "folder" =>
          BytesIn(disk', files[i].localPath) = BytesIn(disk, files[i].localPath)

\* C15: in every reachable state, also after uploads whose byte write or
\* metadata insert failed, every record of kind file or image references a
\* location where the bytes of its upload are completely written: within an
\* upload the write completes before the insert is attempted, and a failed
\* write leaves no metadata record.
C15_BytesBeforeMetadata == []C15_CompleteBytes /\ [][C15_WriteThenInsert]_vars

\* an upload ended with an exception, a truncated file is on the disk, and the
\* record of another upload references its complete bytes
C15_Witness ==
    /\ resp.op = "postUpload" /\ resp.status = Exception.status
    /\ \E d \in disk :
          /\ d.bytes \in StrictPrefixes(FromBase64(PlainBody.data))
          /\ \A i \in FileIndexes : files[i].type # "folder" => files[i].localPath # d.path
    /\ \E i \in FileIndexes : files[i].type # "folder"

\* every job names a stored image and the user who uploaded it, and no two jobs
\* name the same entry
C16_JobsNameImages ==
    /\ \A k \in 1..Len(fileQueue) :
          \E i \in FileIndexes :
              /\ files[i]._id = fileQueue[k].fileId /\ files[i].type = "image"
              /\ toString(files[i].userId) = fileQueue[k].userId
    /\ \A k, l \in 1..Len(fileQueue) :
          fileQueue[k].fileId = fileQueue[l].fileId => k = l

\* the queue changes only in the step that commits the record of an image, by
\* one job that names the new record and the uploader of the request
C16_EnqueueWithCommit ==
    fileQueue' # fileQueue =>
        \E s \in Slots :
            /\ InsertPending(s) /\ reqs[s].body.type = "image" /\ reqs'[s] = Idle
            /\ resp'.op = "postUpload" /\ resp'.status = 201
            /\ Len(files') = Len(files) + 1
            /\ SubSeq(files', 1, Len(files)) = files
            /\ files'[Len(files')].type = "image"
            /\ files'[Len(files')].userId = ObjectId(reqs[s].userId)
            /\ fileQueue' = Append(fileQueue, [fileId |-> files'[Len(files')]._id,
                                                userId |-> reqs[s].userId])

\* C16: a job is enqueued only once the metadata record of an image is
\* committed; every job names the id of a stored image and the identity of its
\* uploader; a committed image upload enqueues at most one job; uploads of
\* folders and files and rejected uploads enqueue none.
C16_JobsAfterCommit == []C16_JobsNameImages /\ [][C16_EnqueueWithCommit]_vars

\* two images are stored, the first without a job (its enqueue failed), the
\* second with the only job of the queue
C16_Witness ==
    /\ Len(files) = 2 /\ files[1].type = "image" /\ files[2].type = "image"
    /\ Len(fileQueue) = 1 /\ fileQueue[1].fileId = files[2]._id

\* the jobs that name a stored entry
JobsOf(queue, f) == {k \in 1..Len(queue) : queue[k].fileId = f._id}

\* a failing enqueue ends the request with 201: the record is committed, its
\* bytes are on the disk, no job is added; no job is added later for a record
\* already stored
C17_FailureSwallowed ==
    /\ \A s \in Slots : UploadEnqueueFails(s) =>
          /\ resp' = [op |-> "postUpload", status |-> 201, error |-> ""]
          /\ Len(files') = Len(files) + 1
          /\ files'[Len(files')].type = "image"
          /\ files'[Len(files')].localPath = reqs[s].localPath
          /\ BytesIn(disk', reqs[s].localPath) = {DecodedBytes(reqs[s].body.data)}
          /\ fileQueue' = fileQueue
          /\ reqs'[s] = Idle
    /\ \A i \in FileIndexes : JobsOf(fileQueue', files[i]) = JobsOf(fileQueue, files[i])

\* C17: when the enqueue of the job of an image upload fails, the committed
\* record and the stored bytes remain and the caller is answered 201; the
\* failure is not surfaced and the enqueue is not retried.
C17_EnqueueFailureKept == [][C17_FailureSwallowed]_vars

\* an upload was answered 201 and a stored image, its bytes on the disk, has no
\* job in the queue
C17_Witness ==
    /\ resp.op = "postUpload" /\ resp.status = 201
    /\ \A s \in Slots : reqs[s] = Idle
    /\ \E i \in FileIndexes :
          /\ files[i].type = "image" /\ JobsOf(fileQueue, files[i]) = {}
          /\ BytesIn(disk, files[i].localPath) # {}

\* the checks of an upload in the order of the claim, each with the error it
\* reports: name, kind, data, parent existence, parent kind
UploadChecks(b) ==
    << [fails |-> b.name = "", error |-> "Missing name"],
       [fails |-> b.type \notin {"folder", "file", "image"}, error |-> "Missing type"],
       [fails |-> b.data = <<>> /\ b.type # "folder", error |-> "Missing data"],
       [fails |-> /\ b.parentId \notin {Null, RootStr}
                  /\ \A i \in FileIndexes : IdOf(files[i]) # b.parentId,
        error |-> "Parent not found"],
       [fails |-> /\ b.parentId \notin {Null, RootStr}
                  /\ \E i \in FileIndexes :
                        IdOf(files[i]) = b.parentId /\ files[i].type # "folder",
        error |-> "Parent is not a folder"] >>

\* the error of the first check of a sequence that fails, "" when all pass
FirstError(checks) ==
    LET failing == {k \in 1..Len(checks) : checks[k].fails} IN
    IF failing = {} THEN ""
    ELSE checks[CHOOSE k \in failing : \A l \in failing : k <= l].error

\* C18: postUpload by an authenticated caller reports the first failing check
\* in the order name, kind, data, parent existence, parent kind, with 400 and no
\* write to any store (no record, no bytes, no job); when no check fails, which
\* an absent or root-sentinel parent never makes the parent checks do, the
\* upload is accepted.
C18_FirstFailingCheck ==
    \A b \in AllBodies :
        LET error == FirstError(UploadChecks(b)) IN
        \A t \in Tokens : Authenticated(t) =>
            LET r == PostUploadRes(t, b.name, b.type, b.isPublic, b.data, b.parentId)
            IN IF error = "" THEN r.status = 201
               ELSE r = Reply(400, error, <<>>, Same)

\* an upload under an entry that is a file was refused
C18_Witness ==
    /\ resp.op = "postUpload" /\ resp.status = 400
    /\ resp.error = "Parent is not a folder"
    /\ \E i \in FileIndexes : files[i].type = "file"
    /\ \E t \in Tokens : Authenticated(t)

\* C19 as written: the userId stored with every new entry is the user bound to
\* the session token of the upload, in the form the owner-scoped handlers
\* (getShow, getIndex, putPublish, putUnpublish) match it against:
\* ObjectId(userId of the session).
C19_OwnerIsSessionUser ==
    \A t \in Tokens : Authenticated(t) =>
        \A b \in AllBodies :
            LET r == PostUploadRes(t, b.name, b.type, b.isPublic, b.data, b.parentId)
            IN r.status = 201 =>
                  r.post.files[Len(r.post.files)].userId = ObjectId(RedisGet(t))

ReadOps == {"getShow", "getIndex", "getFile", "getConnect", "getDisconnect"}

\* the read handlers and the session handlers return the metadata store as it
\* was, for every input
C20_ReadsWriteNothing ==
    /\ \A t \in Tokens, id \in IdInputs :
          /\ GetShowRes(t, id).post.files = files
          /\ \A sz \in Sizes : GetFileRes(t, id, sz).post.files = files
    /\ \A t \in Tokens, par \in ParentInputs, pg \in Pages :
          GetIndexRes(t, par, pg).post.files = files
    /\ \A c \in Creds : GetConnectRes(c).post.files = files
    /\ \A t \in Tokens : GetDisconnectRes(t).post.files = files

\* what a step may do to the metadata store
C20_FrameStep ==
    /\ Len(files') >= Len(files)
    /\ \A i \in FileIndexes :
          files'[i] = [files[i] EXCEPT !.isPublic = files'[i].isPublic]
    /\ (resp'.op \in ReadOps \/ resp'.status >= 400) => files' = files
    /\ files' # files => resp'.op \in {"postUpload"} \cup Toggles
    /\ resp'.op = "postUpload" =>
          \/ files' = files
          \/ Len(files') = Len(files) + 1 /\ SubSeq(files', 1, Len(files)) = files
    /\ resp'.op \in Toggles =>
          /\ Len(files') = Len(files)
          /\ \A i, j \in FileIndexes :
                (files'[i] # files[i] /\ files'[j] # files[j]) => i = j

\* C20: a committed entry is never deleted and its _id, userId, name, type,
\* parentId and localPath never change; getShow, getIndex, getFile, getConnect,
\* getDisconnect and every rejected request leave the metadata store unchanged;
\* an upload only appends one entry; a toggle changes only the isPublic of one
\* entry.
C20_MetadataFrame == []C20_ReadsWriteNothing /\ [][C20_FrameStep]_vars

\* a toggle was answered 200 with two entries stored, one public and one private
C20_Witness ==
    /\ resp.op \in Toggles /\ resp.status = 200
    /\ Len(files) = 2 /\ files[1].isPublic # files[2].isPublic

\* the listing of a folder for a session holds the entry
Listed(t, folder, f) ==
    LET r == GetIndexRes(t, IdOf(folder), NoPage) IN
    r.status = 200 /\ \E k \in 1..Len(r.body) : r.body[k].id = f._id

\* an upload of the given kinds under a folder of another user is accepted and
\* commits an entry owned by the caller with that folder as parent
SharedUploadAccepted(types) ==
    \A t \in Tokens : Authenticated(t) =>
        \A j \in FileIndexes :
            (files[j].type = "folder" /\ OwnerOf(files[j]) # CallerOf(t)) =>
                \A type \in types :
                    LET r == PostUploadRes(t, "a.txt", type, "undefined",
                                           PlainBody.data, IdOf(files[j]))
                        new == r.post.files[Len(r.post.files)]
                    IN /\ r.status = 201
                       /\ Len(r.post.files) = Len(files) + 1
                       /\ OwnerOf(new) = CallerOf(t)
                       /\ new.parentId = files[j]._id

\* every stored entry of the given kinds under a folder of another user is in
\* the listing of that folder for its owner's sessions and not for the sessions
\* of the owner of the folder
SharedEntryListed(types) ==
    \A i, j \in FileIndexes :
        (/\ files[i].type \in types /\ files[j].type = "folder"
         /\ files[i].parentId = files[j]._id
         /\ OwnerOf(files[i]) # OwnerOf(files[j])) =>
            \A t \in Tokens : Authenticated(t) =>
                /\ CallerOf(t) = OwnerOf(files[i]) => Listed(t, files[j], files[i])
                /\ CallerOf(t) = OwnerOf(files[j]) => ~Listed(t, files[j], files[i])

\* C21 as written: an upload by user U, of any kind, whose parentId names a
\* folder of another user V is accepted and commits an entry with owner U and
\* that folder as parent; the entry is in U's listing of the folder and not in
\* V's.
C21_SharedParent ==
    /\ SharedUploadAccepted({"folder", "file", "image"})
    /\ SharedEntryListed({"folder", "file", "image"})

\* the part of C21 the code satisfies: the same for uploads of files and images
C21_SharedParentFile ==
    /\ SharedUploadAccepted({"file", "image"})
    /\ SharedEntryListed({"file", "image"})

\* the record a successful toggle returns carries the value the toggle set
C22_ReturnedValue ==
    \A s \in Slots : ToggleRespond(s) => UpdatedFile(s).isPublic = ToggleValue(reqs[s].op)

\* the stored isPublic of an entry changes only in the update step of a toggle
\* of that entry, to the value of that toggle: the last update applied wins
C22_LastWriteWins ==
    /\ \A s \in Slots : ToggleUpdateOne(s) =>
          \A i \in FileIndexes :
              files'[i] = IF files[i]._id = ObjectId(reqs[s].fileId)
                          THEN [files[i] EXCEPT !.isPublic = ToggleValue(reqs[s].op)]
                          ELSE files[i]
    /\ \A i \in FileIndexes :
          files'[i].isPublic # files[i].isPublic =>
              \E s \in Slots : /\ TogglePending(s, "updateOne")
                               /\ files[i]._id = ObjectId(reqs[s].fileId)
                               /\ files'[i].isPublic = ToggleValue(reqs[s].op)

\* C22 as written: under every interleaving of concurrent toggles of an entry by
\* its owner, the record a successful putPublish returns has isPublic = true and
\* the record a successful putUnpublish returns has isPublic = false, and the
\* stored isPublic is the value of the toggle whose update was applied last.
C22_ToggleRace == [][C22_ReturnedValue /\ C22_LastWriteWins]_vars

\* the part of C22 the code satisfies: the last update applied wins
C22_StoredIsLastUpdate == [][C22_LastWriteWins]_vars
====
